---- MODULE Spec2Model ----
(***************************************************************************)
(* Model of claude-code-schedule (src/src/main.rs, src/src/logger.rs):     *)
(* the one-shot and recurring scheduler, its fire-time computation, the    *)
(* Ctrl+C handler and the records the Logger appends.                      *)
(*                                                                         *)
(* Time.  A DateTime<Local> is the number of clock units since local       *)
(* midnight of day 0; a unit is 1/SubsPerSecond of a second, so that       *)
(* with_second(0) and with_nanosecond(0) both truncate something.  The     *)
(* local zone is taken to have a fixed UTC offset: with_hour never fails   *)
(* and Duration::days(1) is one calendar day.                              *)
(*                                                                         *)
(* The wall clock `now` is read by the program (Local::now()) and advanced *)
(* by the environment where the program loses time: between the two clock  *)
(* reads of main, while it sleeps in a wait loop and while the external    *)
(* command runs.                                                           *)
(***************************************************************************)
EXTENDS Integers, Sequences, FiniteSets

\* ---------------------------------------------------------------- bounds
\* Last calendar day the modelled clock can show (days are 0..MaxDay).
MaxDay == 1
\* Recurring mode starts no cycle numbered above MaxCycles (cycle_number is a
\* u32 and stays far below its overflow).
MaxCycles == 2
\* At most this many Logger::log calls fail in one run.
MaxLogFailures == 1
\* Scheduler processes that share one log directory.
MaxWriters == 2
\* Logger::log calls each of those processes makes.
MaxLogCalls == 2
\* Sub-second resolution of the clock (chrono: nanoseconds).
SubsPerSecond == 2
\* One sleep, or one run of the child, moves the clock at most this many
\* sampled instants on.
MaxJump == 3

\* -------------------------------------------------------- program constants
HoursPerDay == 24
MinutesPerHour == 60
SecondsPerMinute == 60

UnitsPerMinute == SecondsPerMinute * SubsPerSecond
UnitsPerHour == MinutesPerHour * UnitsPerMinute
UnitsPerDay == HoursPerDay * UnitsPerHour

\* ------------------------------------------------------------ chrono model
\* Local.ymd(day).and_hms_nano(h, m, s, sub)
Instant(d, h, m, s, sub) ==
    d * UnitsPerDay + h * UnitsPerHour + m * UnitsPerMinute + s * SubsPerSecond + sub

DayOf(t) == t \div UnitsPerDay
HourOf(t) == (t % UnitsPerDay) \div UnitsPerHour
MinuteOf(t) == (t % UnitsPerHour) \div UnitsPerMinute
SecondOf(t) == (t % UnitsPerMinute) \div SubsPerSecond
SubOf(t) == t % SubsPerSecond

\* Timelike::with_hour / with_minute / with_second / with_nanosecond: replace one
\* field and keep the others.
with_hour(t, h) == t - HourOf(t) * UnitsPerHour + h * UnitsPerHour
with_minute(t, m) == t - MinuteOf(t) * UnitsPerMinute + m * UnitsPerMinute
with_second(t, s) == t - SecondOf(t) * SubsPerSecond + s * SubsPerSecond
with_nanosecond(t, n) == t - SubOf(t) + n

\* chrono::Duration::days(n)
DurationDays(n) == n * UnitsPerDay

\* The instants the modelled clock shows: on each day, at each sampled hour,
\* the hour exactly, one clock unit after it, half past, and the last unit of
\* the hour.
SampleHours == {0, 3, 6, 7, 12, 17, 18, 22, 23}
SampleOffsets ==
    { <<0, 0, 0>>, <<0, 0, 1>>, <<30, 0, 0>>,
      <<MinutesPerHour - 1, SecondsPerMinute - 1, SubsPerSecond - 1>> }
ClockInstants ==
    { Instant(d, h, o[1], o[2], o[3]) :
        d \in 0..MaxDay, h \in SampleHours, o \in SampleOffsets }

\* The instants the clock can show next: one of the MaxJump sampled instants
\* that follow t.
LaterTable ==
    [ t \in ClockInstants |->
        { u \in ClockInstants :
            u > t /\ Cardinality({ v \in ClockInstants : t < v /\ v < u }) < MaxJump } ]
LaterInstants(t) == LaterTable[t]
\* The sampled instant that follows t, if the clock has one.
NextInstant(t) == { u \in LaterInstants(t) : \A v \in LaterInstants(t) : u <= v }

\* ---------------------------------------------------------- ScheduleClock
\* (hour, minute) pairs for the 5-hour cycle, in the order the source lists them.
get_loop_schedule == << <<7, 0>>, <<12, 0>>, <<17, 0>>, <<22, 0>>, <<3, 0>> >>

\* now.with_hour(h).with_minute(m).with_second(0).with_nanosecond(0)
AtTimeOfDay(t, h, m) == with_nanosecond(with_second(with_minute(with_hour(t, h), m), 0), 0)

SetMin(S) == CHOOSE x \in S : \A y \in S : x <= y

\* get_next_loop_time with >= for >: a slot equal to now is taken again.
get_next_loop_timeInclusive(t) ==
    LET schedule == get_loop_schedule
        target(i) == AtTimeOfDay(t, schedule[i][1], schedule[i][2])
        later == { i \in 1..Len(schedule) : target(i) >= t }
        tomorrow == t + DurationDays(1)
    IN  IF later # {}
        THEN target(SetMin(later))
        ELSE AtTimeOfDay(tomorrow, schedule[1][1], schedule[1][2])

\* The for loop returns at the first slot, in list order, whose instant on
\* now's date is later than now; with none, schedule[0] on now + 1 day.
get_next_loop_time(t) ==
    LET schedule == get_loop_schedule
        target(i) == AtTimeOfDay(t, schedule[i][1], schedule[i][2])
        later == { i \in 1..Len(schedule) : target(i) > t }
        tomorrow == t + DurationDays(1)
    IN  IF later # {}
        THEN target(SetMin(later))
        ELSE AtTimeOfDay(tomorrow, schedule[1][1], schedule[1][2])

\* RollForward with < for <=: a target equal to now is kept.
RollForwardStrict(target, t) ==
    IF target < t THEN target + DurationDays(1) ELSE target

\* main, lines 79-83: a target that is not in the future moves one day on.
RollForward(target, t) ==
    IF target <= t THEN target + DurationDays(1) ELSE target

\* --------------------------------------------------------------- Option
None == <<>>
Some(x) == <<x>>

\* ------------------------------------------------------------ parse_time
\* A time string is the sequence of its ':'-separated parts; a part is what
\* str::parse::<u32> makes of it: a number, or an error.
Part(n) == [num |-> TRUE, val |-> n]
BadPart == [num |-> FALSE, val |-> 0]

\* parse_time with > for >= in the range test: 24 and 60 pass.
parse_timeLax(time_str, t) ==
    IF Len(time_str) # 2 THEN [ok |-> FALSE, val |-> 0]
    ELSE IF ~time_str[1].num \/ ~time_str[2].num THEN [ok |-> FALSE, val |-> 0]
    ELSE IF time_str[1].val > HoursPerDay \/ time_str[2].val > MinutesPerHour
         THEN [ok |-> FALSE, val |-> 0]
    ELSE [ok |-> TRUE, val |-> with_nanosecond(with_second(with_minute(with_hour(t,
                                  time_str[1].val), time_str[2].val), 0), 0)]

\* parse_time: Ok(target) or Err; `t` is the Local::now() of line 310.
parse_time(time_str, t) ==
    IF Len(time_str) # 2 THEN [ok |-> FALSE, val |-> 0]
    ELSE IF ~time_str[1].num \/ ~time_str[2].num THEN [ok |-> FALSE, val |-> 0]
    ELSE IF time_str[1].val >= HoursPerDay \/ time_str[2].val >= MinutesPerHour
         THEN [ok |-> FALSE, val |-> 0]
    ELSE [ok |-> TRUE, val |-> AtTimeOfDay(t, time_str[1].val, time_str[2].val)]

\* The default of line 76.
DefaultTime == << Part(6), Part(0) >>

\* The --time values tried: good ones, and one of each malformed kind.
TimeStrings ==
    { << Part(0), Part(0) >>, << Part(23), Part(0) >>, << Part(12), Part(30) >>,
      << Part(23), Part(59) >>, << Part(24), Part(0) >>, << Part(12), Part(60) >>, << Part(12) >>,
      << Part(12), Part(30), Part(45) >>, << BadPart, Part(0) >> }

\* ---------------------------------------------------------- ActionRunner
\* What the child process can do: exit 0, exit 1, or die of a signal.
ChildOutputs ==
    { [success |-> TRUE,  code |-> "Some(0)", stdout |-> "hello", stderr |-> ""],
      [success |-> FALSE, code |-> "Some(1)", stdout |-> "",      stderr |-> "boom"],
      [success |-> FALSE, code |-> "None",    stdout |-> "",      stderr |-> ""] }

NoResult == [kind |-> "none", val |-> <<>>]
\* Command::output() failed: the context message is the error's text.
SpawnError == [kind |-> "err", val |-> <<"Failed to execute claude command">>]

\* run_claude_command, lines 388-394, on the child's output.
run_claude_command(out) ==
    IF ~out.success
    THEN [kind |-> "err",
          val |-> <<"Claude command failed with exit code: ", out.code, "Error: ", out.stderr>>]
    ELSE [kind |-> "ok", val |-> <<out.stdout>>]

\* ------------------------------------------------------------------ Logger
\* LogEntry without its timestamp; the log is kept in write order.
LogEntry(action, status, message, response_content, cycle) ==
    [action |-> action, status |-> status, message |-> message,
     response_content |-> response_content, cycle_number |-> cycle]

ActionTag(ping_mode) == IF ping_mode THEN "ping" ELSE "claude"

\* SuccessEntry without the captured output, as the log_*_success functions
\* that take no response build it.
SuccessEntryNoResponse(ping_mode, response, cycle) ==
    LogEntry(ActionTag(ping_mode), "success",
             Some(IF ping_mode THEN <<"Ping sent successfully">>
                               ELSE <<"Claude command executed successfully">>),
             None, cycle)

\* log_ping_success_with_response / log_claude_success_with_response
SuccessEntry(ping_mode, response, cycle) ==
    LogEntry(ActionTag(ping_mode), "success",
             Some(IF ping_mode THEN <<"Ping sent successfully">>
                               ELSE <<"Claude command executed successfully">>),
             Some(response), cycle)

\* log_ping_error_with_cycle / log_claude_error_with_cycle
ErrorEntry(ping_mode, error_msg, cycle) ==
    LogEntry(ActionTag(ping_mode), "error", Some(error_msg), None, cycle)

\* CycleEndEntry as written when the counter is incremented before the end
\* record is logged.
CycleEndEntryNext(n) ==
    LogEntry("cycle", "end", Some(<<"Completed cycle", n + 1>>), None, Some(n + 1))

\* log_cycle_start / log_cycle_end
CycleStartEntry(n) == LogEntry("cycle", "start", Some(<<"Starting cycle", n>>), None, Some(n))
CycleEndEntry(n) == LogEntry("cycle", "end", Some(<<"Completed cycle", n>>), None, Some(n))

\* The record the scheduler logs for the action's result.
OutcomeEntry(ping_mode, res, cycle) ==
    IF res.kind = "ok" THEN SuccessEntry(ping_mode, res.val, cycle)
    ELSE ErrorEntry(ping_mode, res.val, cycle)

\* ------------------------------------------------------- the log files
\* The dates that have a log file, <log_dir>/<date>.log.
LogDates == 0..MaxDay

\* A LogEntry with its timestamp (LogEntry::new: Local::now()).
LogEntryAt(timestamp, e) ==
    [timestamp |-> timestamp, action |-> e.action, status |-> e.status,
     message |-> e.message, response_content |-> e.response_content,
     cycle_number |-> e.cycle_number]

\* The entries logged: for each date, a cycle start at its first instant and
\* a failed action at its last.
EntrySamples ==
    { LogEntryAt(Instant(d, 0, 0, 0, 0), CycleStartEntry(1)) : d \in LogDates } \cup
    { LogEntryAt(Instant(d, HoursPerDay - 1, MinutesPerHour - 1, SecondsPerMinute - 1,
                         SubsPerSecond - 1),
                 ErrorEntry(FALSE, <<"boom">>, None)) : d \in LogDates }

\* entry.timestamp.format("%Y-%m-%d"): the date that names the file.
date_str(entry) == DayOf(entry.timestamp)

\* serde_json::to_string(&entry): the entry as one JSON text; JSON escapes
\* line breaks, so the text holds no newline.
to_string(entry) == << "json", entry >>

\* The line terminator writeln! adds.
Newline == << "\n" >>

\* A file is the sequence of the texts written to it, in order.
NoFile == [exists |-> FALSE, data |-> <<>>]
EmptyDir == [d \in LogDates |-> NoFile]

\* What an earlier run of the scheduler may have left for date d: nothing,
\* or a file with one line.
PriorFiles(d) ==
    { NoFile,
      [exists |-> TRUE,
       data |-> << to_string(LogEntryAt(Instant(d, 0, 0, 0, 0), CycleEndEntry(1))),
                   Newline >>] }

\* A process that is not inside Logger::log, after `calls` calls.
IdleWriter(calls) ==
    [pc |-> "idle", entry |-> LogEntryAt(0, CycleStartEntry(1)),
     json_line |-> << >>, before |-> EmptyDir, calls |-> calls]

\* ------------------------------------------------------------------- state
VARIABLES
    now,             \* the wall clock, what Local::now() returns
    args,            \* the parsed command line (Args), fixed at start
    pc,              \* where main is
    target_time,     \* one-shot: the target of parse_time, then the fire time
    next_time,       \* recurring: the fire time of the current cycle
    cycle_number,    \* recurring: the cycle counter
    result,          \* the Result<String> of the last action run
    log,             \* the LogEntry records this run has appended, in write order
    log_failures,    \* how many Logger::log calls returned Err
    invocations,     \* how many times the external command was run
    handler,         \* the Ctrl+C task is listening
    pid_file_exists, \* the PID file is on disk
    exit_code,       \* the process exit code: None while running, Some(code) after
    exit_via,        \* why the process ended
    files,           \* the log directory: for each date, its <date>.log file
    wr,              \* each process's position in Logger::log
    procs            \* the scheduler processes that log to the directory

\* The scheduler's own variables, but for log_failures.
schedVars == << now, args, pc, target_time, next_time, cycle_number, result, log,
                invocations, handler, pid_file_exists, exit_code, exit_via >>
\* The log directory and the processes inside Logger::log.
loggerVars == << files, wr, procs >>
vars == << now, args, pc, target_time, next_time, cycle_number, result, log,
           log_failures, invocations, handler, pid_file_exists, exit_code, exit_via,
           files, wr, procs >>

\* Args: loop mode ignores --time, so it is left out there.
ArgsSet ==
    { a \in [ loop_mode : BOOLEAN, dry_run : BOOLEAN, ping_mode : BOOLEAN,
              pid_file : BOOLEAN, time : {None} \cup { Some(ts) : ts \in TimeStrings } ] :
        a.loop_mode => a.time = None }

\* The program starts on day 0.
Init ==
    /\ now \in { t \in ClockInstants : DayOf(t) = 0 }
    /\ args \in ArgsSet
    /\ pc = "main"
    /\ target_time = 0
    /\ next_time = 0
    /\ cycle_number = 0
    /\ result = NoResult
    /\ log = <<>>
    /\ log_failures = 0
    /\ invocations = 0
    /\ handler = FALSE
    /\ pid_file_exists = FALSE
    /\ exit_code = None
    /\ exit_via = "none"
    /\ files = EmptyDir
    /\ wr = [w \in 1..MaxWriters |-> IdleWriter(0)]
    /\ procs = {}

\* cleanup_pid_file: with a path given, the file is removed.
cleanup_pid_file == pid_file_exists' = IF args.pid_file THEN FALSE ELSE pid_file_exists

\* The process ends: main returns (Ok: code 0, Err: code 1) or process::exit.
Terminate(code, via) ==
    /\ pc' = "exited"
    /\ exit_code' = Some(code)
    /\ exit_via' = via

\* Logger::log(entry): append one line, or fail and append nothing.
LogWrite(entry, ok) ==
    IF ok
    THEN log' = Append(log, entry) /\ log_failures' = log_failures
    ELSE log' = log /\ log_failures' = log_failures + 1

\* The outcomes of one Logger::log call that the bounds allow.
LogOutcomes == IF log_failures < MaxLogFailures THEN BOOLEAN ELSE {TRUE}

\* ------------------------------------------------------------------ main
\* EnterSingleMode without the dry_run test: a preview goes on to wait.
EnterSingleModeNoPreview ==
    /\ handler' = TRUE
    /\ pc' = "waiting"
    /\ UNCHANGED << pid_file_exists, exit_code, exit_via >>

\* run_single_mode up to the wait loop (lines 95-124): preview returns Ok and
\* main cleans up and exits 0; otherwise the Ctrl+C task is spawned.
EnterSingleMode ==
    IF args.dry_run
    THEN /\ cleanup_pid_file
         /\ Terminate(0, "preview")
         /\ UNCHANGED handler
    ELSE /\ handler' = TRUE
         /\ pc' = "waiting"
         /\ UNCHANGED << pid_file_exists, exit_code, exit_via >>

\* run_loop_mode up to the loop (lines 187-218).
EnterLoopMode ==
    IF args.dry_run
    THEN /\ cleanup_pid_file
         /\ Terminate(0, "preview")
         /\ UNCHANGED << handler, cycle_number >>
    ELSE /\ handler' = TRUE
         /\ cycle_number' = 1
         /\ pc' = "loop_top"
         /\ UNCHANGED << pid_file_exists, exit_code, exit_via >>

\* Main with the error of logger.init swallowed: the failure is reported and
\* main returns Ok.
MainInitFailureExitsZero ==
    /\ pc = "main"
    /\ \E init_ok \in BOOLEAN, pid_ok \in BOOLEAN :
         IF ~init_ok \/ (args.pid_file /\ ~pid_ok)
         THEN /\ Terminate(IF ~init_ok THEN 0 ELSE 1,
                           IF ~init_ok THEN "init_failed" ELSE "pid_failed")
              /\ UNCHANGED pid_file_exists
         ELSE /\ pid_file_exists' = args.pid_file
              /\ pc' = "started"
              /\ UNCHANGED << exit_code, exit_via >>
    /\ UNCHANGED << now, args, target_time, next_time, cycle_number, result, log,
                    log_failures, invocations, handler >>
    /\ UNCHANGED loggerVars

\* main, lines 56-65: logger.init and write_pid_file.  init_ok and pid_ok are
\* what the file system answers; either failure makes main return Err.
Main ==
    /\ pc = "main"
    /\ \E init_ok \in BOOLEAN, pid_ok \in BOOLEAN :
         IF ~init_ok \/ (args.pid_file /\ ~pid_ok)
         THEN /\ Terminate(1, IF ~init_ok THEN "init_failed" ELSE "pid_failed")
              /\ UNCHANGED pid_file_exists
         ELSE /\ pid_file_exists' = args.pid_file
              /\ pc' = "started"
              /\ UNCHANGED << exit_code, exit_via >>
    /\ UNCHANGED << now, args, target_time, next_time, cycle_number, result, log,
                    log_failures, invocations, handler >>
    /\ UNCHANGED loggerVars

\* main, line 69: loop mode ignores --time and enters run_loop_mode.
StartLoop ==
    /\ pc = "started"
    /\ args.loop_mode
    /\ EnterLoopMode
    /\ UNCHANGED << now, args, target_time, next_time, result, log, log_failures,
                    invocations >>
    /\ UNCHANGED loggerVars

\* main, lines 72-77: parse_time of --time or of the default; Err ends main
\* at the `?`, before cleanup_pid_file.
ParseTarget ==
    /\ pc = "started"
    /\ ~args.loop_mode
    /\ LET time_str == IF args.time = None THEN DefaultTime ELSE args.time[1]
           parsed == parse_time(time_str, now)
       IN  IF ~parsed.ok
           THEN /\ Terminate(1, "invalid_time")
                /\ UNCHANGED target_time
           ELSE /\ target_time' = parsed.val
                /\ pc' = "parsed"
                /\ UNCHANGED << exit_code, exit_via >>
    /\ UNCHANGED << now, args, next_time, cycle_number, result, log, log_failures,
                    invocations, handler, pid_file_exists >>
    /\ UNCHANGED loggerVars

\* main, lines 79-85: the second Local::now() (what parse_time read, or the
\* instant after it), the roll forward, and run_single_mode up to its wait
\* loop.
Adjust ==
    /\ pc = "parsed"
    /\ \E t \in {now} \cup NextInstant(now) :
         /\ now' = t
         /\ target_time' = RollForward(target_time, t)
    /\ EnterSingleMode
    /\ UNCHANGED << args, next_time, cycle_number, result, log, log_failures,
                    invocations >>
    /\ UNCHANGED loggerVars

\* ------------------------------------------------------------- wait loops
\* The fire time the wait loop compares with: next_time in run_loop_mode,
\* target_time in run_single_mode.
FireTime == IF args.loop_mode THEN next_time ELSE target_time

\* run_loop_mode, lines 221-224: the top of a cycle computes its fire time.
LoopTop ==
    /\ pc = "loop_top"
    /\ cycle_number <= MaxCycles
    /\ next_time' = get_next_loop_time(now)
    /\ pc' = "waiting"
    /\ UNCHANGED << now, args, target_time, cycle_number, result, log, log_failures,
                    invocations, handler, pid_file_exists, exit_code, exit_via >>
    /\ UNCHANGED loggerVars

\* Lines 170-180 and 233-242: not yet time, sleep; the clock has moved on
\* when the loop reads it again.
WaitSleep ==
    /\ pc = "waiting"
    /\ ~(now >= FireTime)
    /\ \E t \in LaterInstants(now) : now' = t
    /\ UNCHANGED << args, pc, target_time, next_time, cycle_number, result, log,
                    log_failures, invocations, handler, pid_file_exists, exit_code,
                    exit_via >>
    /\ UNCHANGED loggerVars

\* WaitFire with > for >=: the two tests of the clock leave out now = target.
WaitFireStrict ==
    /\ pc = "waiting"
    /\ now > FireTime
    /\ pc' = IF args.loop_mode THEN "log_cycle_start" ELSE "run_action"
    /\ UNCHANGED << now, args, target_time, next_time, cycle_number, result, log,
                    log_failures, invocations, handler, pid_file_exists, exit_code,
                    exit_via >>
    /\ UNCHANGED loggerVars

\* WaitFire without the test of the clock: the wait ends at once.
WaitFireEarly ==
    /\ pc = "waiting"
    /\ pc' = IF args.loop_mode THEN "log_cycle_start" ELSE "run_action"
    /\ UNCHANGED << now, args, target_time, next_time, cycle_number, result, log,
                    log_failures, invocations, handler, pid_file_exists, exit_code,
                    exit_via >>
    /\ UNCHANGED loggerVars

\* Lines 129 and 229: now >= target ends the wait.
WaitFire ==
    /\ pc = "waiting"
    /\ now >= FireTime
    /\ pc' = IF args.loop_mode THEN "log_cycle_start" ELSE "run_action"
    /\ UNCHANGED << now, args, target_time, next_time, cycle_number, result, log,
                    log_failures, invocations, handler, pid_file_exists, exit_code,
                    exit_via >>
    /\ UNCHANGED loggerVars

\* ------------------------------------------------------------ one cycle
\* LogCycleStart with `?` on the log call: a failed write ends the process.
LogCycleStartFatal ==
    /\ pc = "log_cycle_start"
    /\ \E ok \in LogOutcomes :
         /\ LogWrite(CycleStartEntry(cycle_number), ok)
         /\ IF ok
            THEN pc' = "run_action" /\ UNCHANGED << exit_code, exit_via >>
            ELSE Terminate(1, "log_failed")
    /\ UNCHANGED << now, args, target_time, next_time, cycle_number, result,
                    invocations, handler, pid_file_exists >>
    /\ UNCHANGED loggerVars

\* run_loop_mode, lines 245-248: log_cycle_start; Err is only a warning.
LogCycleStart ==
    /\ pc = "log_cycle_start"
    /\ \E ok \in LogOutcomes : LogWrite(CycleStartEntry(cycle_number), ok)
    /\ pc' = "run_action"
    /\ UNCHANGED << now, args, target_time, next_time, cycle_number, result,
                    invocations, handler, pid_file_exists, exit_code, exit_via >>
    /\ UNCHANGED loggerVars

\* run_ping / run_claude_command, lines 383-386: Command::output() starts the
\* child and blocks, or fails to start it.
RunAction ==
    /\ pc = "run_action"
    /\ invocations' = invocations + 1
    /\ \E spawned \in BOOLEAN :
         IF spawned
         THEN pc' = "executing" /\ result' = NoResult
         ELSE pc' = "log_outcome" /\ result' = SpawnError
    /\ UNCHANGED << now, args, target_time, next_time, cycle_number, log, log_failures,
                    handler, pid_file_exists, exit_code, exit_via >>
    /\ UNCHANGED loggerVars

\* Lines 388-394: the child has run for some time and ended, and
\* run_claude_command returns.
FinishAction ==
    /\ pc = "executing"
    /\ \E out \in ChildOutputs : result' = run_claude_command(out)
    /\ \E t \in {now} \cup LaterInstants(now) : now' = t
    /\ pc' = "log_outcome"
    /\ UNCHANGED << args, target_time, next_time, cycle_number, log, log_failures,
                    invocations, handler, pid_file_exists, exit_code, exit_via >>
    /\ UNCHANGED loggerVars

\* LogOutcomeSingle without `return Err(e)`: a failed action ends like a
\* successful one.
LogOutcomeSingleSwallow ==
    /\ pc = "log_outcome"
    /\ ~args.loop_mode
    /\ \E ok \in LogOutcomes : LogWrite(OutcomeEntry(args.ping_mode, result, None), ok)
    /\ cleanup_pid_file
    /\ Terminate(0, "completed")
    /\ UNCHANGED << now, args, target_time, next_time, cycle_number, result,
                    invocations, handler >>
    /\ UNCHANGED loggerVars

\* run_single_mode, lines 132-168 and 183, then main, lines 85-90: the record
\* of the result is logged (Err is only a warning); Ok breaks out, main
\* removes the PID file and returns Ok; Err is returned through main's `?`.
LogOutcomeSingle ==
    /\ pc = "log_outcome"
    /\ ~args.loop_mode
    /\ \E ok \in LogOutcomes : LogWrite(OutcomeEntry(args.ping_mode, result, None), ok)
    /\ IF result.kind = "ok"
       THEN cleanup_pid_file /\ Terminate(0, "completed")
       ELSE Terminate(1, "action_failed") /\ UNCHANGED pid_file_exists
    /\ UNCHANGED << now, args, target_time, next_time, cycle_number, result,
                    invocations, handler >>
    /\ UNCHANGED loggerVars

\* LogOutcomeLoop passing None for the cycle number, as one-shot mode does.
LogOutcomeLoopNoCycle ==
    /\ pc = "log_outcome"
    /\ args.loop_mode
    /\ \E ok \in LogOutcomes : LogWrite(OutcomeEntry(args.ping_mode, result, None), ok)
    /\ pc' = "log_cycle_end"
    /\ UNCHANGED << now, args, target_time, next_time, cycle_number, result,
                    invocations, handler, pid_file_exists, exit_code, exit_via >>
    /\ UNCHANGED loggerVars

\* LogOutcomeLoop with the `return Err(e)` of one-shot mode: a failed action
\* ends the process.
LogOutcomeLoopFatal ==
    /\ pc = "log_outcome"
    /\ args.loop_mode
    /\ \E ok \in LogOutcomes :
         LogWrite(OutcomeEntry(args.ping_mode, result, Some(cycle_number)), ok)
    /\ IF result.kind = "err"
       THEN Terminate(1, "action_failed")
       ELSE pc' = "log_cycle_end" /\ UNCHANGED << exit_code, exit_via >>
    /\ UNCHANGED << now, args, target_time, next_time, cycle_number, result,
                    invocations, handler, pid_file_exists >>
    /\ UNCHANGED loggerVars

\* run_loop_mode, lines 253-285: the record of the result is logged with the
\* cycle number; a failed action is printed and the cycle goes on.
LogOutcomeLoop ==
    /\ pc = "log_outcome"
    /\ args.loop_mode
    /\ \E ok \in LogOutcomes :
         LogWrite(OutcomeEntry(args.ping_mode, result, Some(cycle_number)), ok)
    /\ pc' = "log_cycle_end"
    /\ UNCHANGED << now, args, target_time, next_time, cycle_number, result,
                    invocations, handler, pid_file_exists, exit_code, exit_via >>
    /\ UNCHANGED loggerVars

\* LogCycleEnd with the increment only after a successful action.
LogCycleEndIfOk ==
    /\ pc = "log_cycle_end"
    /\ \E ok \in LogOutcomes : LogWrite(CycleEndEntry(cycle_number), ok)
    /\ cycle_number' = IF result.kind = "ok" THEN cycle_number + 1 ELSE cycle_number
    /\ pc' = "loop_top"
    /\ UNCHANGED << now, args, target_time, next_time, result, invocations, handler,
                    pid_file_exists, exit_code, exit_via >>
    /\ UNCHANGED loggerVars

\* run_loop_mode, lines 287-293: log_cycle_end, then cycle_number += 1.
LogCycleEnd ==
    /\ pc = "log_cycle_end"
    /\ \E ok \in LogOutcomes : LogWrite(CycleEndEntry(cycle_number), ok)
    /\ cycle_number' = cycle_number + 1
    /\ pc' = "loop_top"
    /\ UNCHANGED << now, args, target_time, next_time, result, invocations, handler,
                    pid_file_exists, exit_code, exit_via >>
    /\ UNCHANGED loggerVars

\* ------------------------------------------------------------ cancellation
\* Cancel as a flag the scheduler tests only after its wait: a cancellation
\* during the wait still runs the action once before the process exits.
CancelAfterAction ==
    /\ handler
    /\ pc # "exited"
    /\ invocations' = IF pc = "waiting" THEN invocations + 1 ELSE invocations
    /\ IF args.loop_mode THEN cleanup_pid_file ELSE UNCHANGED pid_file_exists
    /\ Terminate(0, "cancel")
    /\ UNCHANGED << now, args, target_time, next_time, cycle_number, result, log,
                    log_failures, handler >>
    /\ UNCHANGED loggerVars

\* The spawned Ctrl+C tasks, lines 120-124 and 211-216: process::exit(0);
\* only the loop-mode task removes the PID file first.
Cancel ==
    /\ handler
    /\ pc # "exited"
    /\ IF args.loop_mode THEN cleanup_pid_file ELSE UNCHANGED pid_file_exists
    /\ Terminate(0, "cancel")
    /\ UNCHANGED << now, args, target_time, next_time, cycle_number, result, log,
                    log_failures, invocations, handler >>
    /\ UNCHANGED loggerVars

Next ==
    \/ Main
    \/ StartLoop
    \/ ParseTarget
    \/ Adjust
    \/ LoopTop
    \/ WaitSleep
    \/ WaitFire
    \/ LogCycleStart
    \/ RunAction
    \/ FinishAction
    \/ LogOutcomeSingle
    \/ LogOutcomeLoop
    \/ LogCycleEnd
    \/ Cancel

Spec == Init /\ [][Next]_vars

\* The steps of main itself: every step but the Ctrl+C task's.
ProgramStep ==
    \/ Main
    \/ StartLoop
    \/ ParseTarget
    \/ Adjust
    \/ LoopTop
    \/ WaitSleep
    \/ WaitFire
    \/ LogCycleStart
    \/ RunAction
    \/ FinishAction
    \/ LogOutcomeSingle
    \/ LogOutcomeLoop
    \/ LogCycleEnd

\* The same program when main keeps running: its next step is always taken
\* (the sleep of lines 173 and 242 returns with a later clock, the external
\* command returns, a log call returns). The Ctrl+C task has no such
\* condition: a cancellation may never arrive.
FairSpec == Init /\ [][Next]_vars /\ WF_vars(ProgramStep)

\* ------------------------------------------------------------- Logger::log
\* Logger::log, lines 96-100: the entry is built by the caller, the path
\* comes from its timestamp, the entry is serialized. `before` remembers
\* the directory as it was when the call began.
LogCall(w) ==
    /\ wr[w].pc = "idle"
    /\ wr[w].calls < MaxLogCalls
    /\ \E entry \in EntrySamples :
         wr' = [wr EXCEPT ![w] = [pc |-> "open", entry |-> entry,
                                  json_line |-> to_string(entry), before |-> files,
                                  calls |-> wr[w].calls + 1]]
    /\ UNCHANGED << files, procs, log_failures >>
    /\ UNCHANGED schedVars

\* LogOpen with truncate(true) for append(true): opening empties the file.
LogOpenTruncate(w) ==
    /\ wr[w].pc = "open"
    /\ \E ok \in LogOutcomes :
         IF ok
         THEN /\ files' = [files EXCEPT ![date_str(wr[w].entry)] =
                                         [exists |-> TRUE, data |-> << >>]]
              /\ wr' = [wr EXCEPT ![w].pc = "write_line"]
              /\ UNCHANGED log_failures
         ELSE /\ wr' = [wr EXCEPT ![w] = IdleWriter(wr[w].calls)]
              /\ log_failures' = log_failures + 1
              /\ UNCHANGED files
    /\ UNCHANGED procs
    /\ UNCHANGED schedVars

\* Lines 102-106: OpenOptions create(true).append(true).open; the file is
\* created if absent and nothing in it changes. A failure returns Err.
LogOpen(w) ==
    /\ wr[w].pc = "open"
    /\ \E ok \in LogOutcomes :
         IF ok
         THEN /\ files' = [files EXCEPT ![date_str(wr[w].entry)].exists = TRUE]
              /\ wr' = [wr EXCEPT ![w].pc = "write_line"]
              /\ UNCHANGED log_failures
         ELSE /\ wr' = [wr EXCEPT ![w] = IdleWriter(wr[w].calls)]
              /\ log_failures' = log_failures + 1
              /\ UNCHANGED files
    /\ UNCHANGED procs
    /\ UNCHANGED schedVars

\* Line 108, writeln!(file, "{json_line}") on the unbuffered File:
\* write_fmt writes the pieces of the format one by one, first the text of
\* json_line. O_APPEND puts each write at the end of the file as it is then.
LogWriteLine(w) ==
    /\ wr[w].pc = "write_line"
    /\ \E ok \in LogOutcomes :
         IF ok
         THEN /\ files' = [files EXCEPT ![date_str(wr[w].entry)].data =
                                         Append(@, wr[w].json_line)]
              /\ wr' = [wr EXCEPT ![w].pc = "write_newline"]
              /\ UNCHANGED log_failures
         ELSE /\ wr' = [wr EXCEPT ![w] = IdleWriter(wr[w].calls)]
              /\ log_failures' = log_failures + 1
              /\ UNCHANGED files
    /\ UNCHANGED procs
    /\ UNCHANGED schedVars

\* Line 108, the second piece of the format: the newline, in a write of its
\* own; then log returns Ok (lines 110-122 only print).
LogWriteNewline(w) ==
    /\ wr[w].pc = "write_newline"
    /\ \E ok \in LogOutcomes :
         /\ IF ok
            THEN /\ files' = [files EXCEPT ![date_str(wr[w].entry)].data =
                                            Append(@, Newline)]
                 /\ UNCHANGED log_failures
            ELSE /\ log_failures' = log_failures + 1
                 /\ UNCHANGED files
         /\ wr' = [wr EXCEPT ![w] = IdleWriter(wr[w].calls)]
    /\ UNCHANGED procs
    /\ UNCHANGED schedVars

LoggerNext ==
    \/ \E w \in procs : LogCall(w)
    \/ \E w \in procs : LogOpen(w)
    \/ \E w \in procs : LogWriteLine(w)
    \/ \E w \in procs : LogWriteNewline(w)

\* The log directory as the scheduler finds it: files of earlier
\* runs may be there. The scheduler's own variables play no part in
\* Logger::log and keep the values Init gives them.
DirInit ==
    /\ now = 0
    /\ args = [loop_mode |-> TRUE, dry_run |-> FALSE, ping_mode |-> FALSE,
               pid_file |-> FALSE, time |-> None]
    /\ pc = "main"
    /\ target_time = 0
    /\ next_time = 0
    /\ cycle_number = 0
    /\ result = NoResult
    /\ log = <<>>
    /\ log_failures = 0
    /\ invocations = 0
    /\ handler = FALSE
    /\ pid_file_exists = FALSE
    /\ exit_code = None
    /\ exit_via = "none"
    /\ files \in { f \in [LogDates -> UNION { PriorFiles(d) : d \in LogDates }] :
                      \A d \in LogDates : f[d] \in PriorFiles(d) }
    /\ wr = [w \in 1..MaxWriters |-> IdleWriter(0)]

\* One scheduler process logs to the directory.
LoggerInit == DirInit /\ procs = {1}
LoggerSpec == LoggerInit /\ [][LoggerNext]_vars

\* Several scheduler processes log to the same directory at once.
AppendInit == DirInit /\ procs = 1..MaxWriters
AppendSpec == AppendInit /\ [][LoggerNext]_vars

\* =================================================================== claims
\* The slots as the schedule announces them, without their order.
ScheduleSlots == { get_loop_schedule[i] : i \in 1..Len(get_loop_schedule) }
\* A slot on calendar day d: that hour and minute, seconds and below zero.
SlotInstant(d, slot) == Instant(d, slot[1], slot[2], 0, 0)
\* The slot-instants of t's calendar date that are strictly later than t.
SlotsLaterToday(t) == { x \in { SlotInstant(DayOf(t), sl) : sl \in ScheduleSlots } : x > t }
\* The slot with the earliest time of day.
EarliestSlot ==
    CHOOSE sl \in ScheduleSlots :
        \A o \in ScheduleSlots : SlotInstant(0, sl) <= SlotInstant(0, o)

\* The step in which run_loop_mode computes a cycle's fire time from `now`.
LoopTopStep == pc = "loop_top" /\ pc' = "waiting"
\* The step in which main reads the clock (now') and settles the one-shot target.
AdjustStep == pc = "parsed" /\ pc' # "parsed"

\* C1: whenever some slot of today is strictly later than now,
\* get_next_loop_time(now) is the smallest slot-instant of today later than now.
C1_SmallestSlotToday ==
    [][ (LoopTopStep /\ SlotsLaterToday(now) # {})
            => next_time' = SetMin(SlotsLaterToday(now)) ]_vars

\* C2: whenever no slot of today is strictly later than now,
\* get_next_loop_time(now) is the earliest time-of-day slot (03:00) on the next day.
C2_WrapToEarliestSlot ==
    [][ (LoopTopStep /\ SlotsLaterToday(now) = {})
            => next_time' = SlotInstant(DayOf(now) + 1, EarliestSlot) ]_vars

\* The requested (or default) time of day, valid once parse_time accepted it.
RequestedTime == IF args.time = None THEN DefaultTime ELSE args.time[1]
\* The requested time of day on the calendar date of t.
RequestedOn(t) == Instant(DayOf(t), RequestedTime[1].val, RequestedTime[2].val, 0, 0)

\* C3: with t the requested time of day on today's date (the date parse_time
\* saw) and now' the clock main compares with, the one-shot fire time is t
\* when t > now', and t + 1 day, same hour and minute, seconds zero, when
\* t <= now'.
C3_OneShotTarget ==
    [][ AdjustStep =>
          LET t == RequestedOn(now)
          IN  /\ t > now' => target_time' = t
              /\ t <= now' =>
                    /\ target_time' = t + UnitsPerDay
                    /\ DayOf(target_time') = DayOf(t) + 1
                    /\ HourOf(target_time') = RequestedTime[1].val
                    /\ MinuteOf(target_time') = RequestedTime[2].val
                    /\ SecondOf(target_time') = 0 /\ SubOf(target_time') = 0 ]_vars

\* 23:00 was requested at or after 23:00 and the target is tomorrow's 23:00.
C3_Witness ==
    /\ ~args.loop_mode /\ pc = "waiting"
    /\ args.time = Some(<< Part(23), Part(0) >>)
    /\ HourOf(now) = 23 /\ MinuteOf(now) = 30
    /\ target_time = Instant(DayOf(now) + 1, 23, 0, 0, 0)

\* C4: every computed fire time is strictly later than the now it was
\* computed from: the clock of line 79 in one-shot mode, the clock of line
\* 221 in every cycle of recurring mode.
C4_FireTimeInFuture ==
    [][ /\ AdjustStep => target_time' > now'
        /\ LoopTopStep => next_time' > now ]_vars

\* The positions of main from the wait loop on.
SchedulingPcs ==
    {"loop_top", "waiting", "log_cycle_start", "run_action", "executing",
     "log_outcome", "log_cycle_end"}

\* C5: with --dry-run, in one-shot and in recurring mode and with either
\* action, main never reaches a wait loop, the external command is never run,
\* no Logger::log call is made, no Ctrl+C task is spawned, and a run that got
\* past logger.init, write_pid_file and parse_time ends with exit code 0.
C5_PreviewOnly ==
    args.dry_run =>
        /\ pc \notin SchedulingPcs
        /\ invocations = 0
        /\ log = <<>> /\ log_failures = 0
        /\ ~handler
        /\ (pc = "exited" /\ exit_via \notin {"init_failed", "pid_failed", "invalid_time"})
              => (exit_via = "preview" /\ exit_code = Some(0))

\* A recurring ping preview has ended.
C5_Witness ==
    /\ args.dry_run /\ args.loop_mode /\ args.ping_mode
    /\ pc = "exited" /\ exit_via = "preview" /\ exit_code = Some(0)

\* The place of a record in the ideal log of recurring mode: the start,
\* outcome and end records of cycle k are at 3k-2, 3k-1 and 3k; 0 for a
\* record that belongs to no cycle.
TripleRank(e) ==
    IF e.cycle_number = None THEN 0
    ELSE LET k == e.cycle_number[1]
         IN  IF e.action = "cycle" /\ e.status = "start" THEN 3 * k - 2
             ELSE IF e.action = "cycle" /\ e.status = "end" THEN 3 * k
             ELSE IF e.action \in {"ping", "claude"} /\ e.status \in {"success", "error"}
                  THEN 3 * k - 1
             ELSE 0

\* The cycles completed so far, between two cycles of recurring mode.
BetweenCycles == args.loop_mode /\ pc \in {"loop_top", "waiting"}
CompletedCycles == cycle_number - 1

Contains(msg, x) == \E i \in 1..Len(msg) : msg[i] = x

\* main returned after run_single_mode ran the action (not a cancellation,
\* not a preview, not a failure before scheduling).
SingleRan == ~args.loop_mode /\ pc = "exited" /\ exit_via \in {"completed", "action_failed"}

\* C7: one-shot mode ends after exactly one run of the action, with exit
\* code 0 if it succeeded and a non-zero exit code if it failed or could not
\* be started; a child that exits 1 with stderr "boom" gives an error whose
\* text contains "boom".
C7_OneShotExit ==
    /\ ~args.loop_mode => invocations <= 1
    /\ SingleRan =>
          /\ invocations = 1
          /\ result.kind \in {"ok", "err"}
          /\ result.kind = "ok" => exit_code = Some(0)
          /\ result.kind = "err" => exit_code \notin {Some(0), None}
    /\ \A out \in ChildOutputs :
          (out.code = "Some(1)" /\ out.stderr = "boom") =>
              /\ run_claude_command(out).kind = "err"
              /\ Contains(run_claude_command(out).val, "boom")

\* One-shot mode has ended non-zero after the child failed with "boom".
C7_Witness ==
    /\ SingleRan /\ exit_code = Some(1) /\ invocations = 1
    /\ result.kind = "err" /\ Contains(result.val, "boom")

\* In the step taken, a Logger::log call returned Err.
LogWriteFailed == log_failures' = log_failures + 1
\* The step taken is the Ctrl+C task's.
CancelStep == exit_via # "cancel" /\ exit_via' = "cancel"

\* C8: in recurring mode a failed action does not end the scheduler: its
\* error record is logged and the cycle goes on to its end record, the
\* counter advances and the next fire time is awaited; once the loop has
\* started the process ends only by cancellation, with exit code 0.
C8_FailureAbsorbed ==
    /\ []( (args.loop_mode /\ handler /\ pc = "exited")
              => (exit_via = "cancel" /\ exit_code = Some(0)) )
    /\ [][ (args.loop_mode /\ result.kind = "err" /\ ~CancelStep) =>
              /\ pc = "log_outcome" =>
                    /\ pc' = "log_cycle_end"
                    /\ \/ LogWriteFailed
                       \/ /\ log' = Append(log, log'[Len(log')])
                          /\ log'[Len(log')].status = "error"
                          /\ log'[Len(log')].cycle_number = Some(cycle_number)
              /\ pc = "log_cycle_end" =>
                    /\ pc' = "loop_top"
                    /\ cycle_number' = cycle_number + 1
                    /\ LogWriteFailed \/ log' = Append(log, CycleEndEntry(cycle_number))
              /\ pc = "loop_top" => pc' = "waiting" ]_vars

\* After a failed first cycle, closed by its end record, the scheduler waits
\* for the second fire time.
C8_Witness ==
    /\ args.loop_mode /\ pc = "waiting" /\ cycle_number = 2
    /\ result.kind = "err" /\ now < next_time
    /\ Len(log) > 0 /\ log[Len(log)] = CycleEndEntry(1)

\* C9: a failed log write is never fatal: in recurring mode the step goes
\* where it goes after a successful write (start -> action, outcome -> end,
\* end -> next cycle with the counter advanced); in one-shot mode the exit
\* code depends on the action's result alone.
C9_LogFailureNotFatal ==
    /\ []( SingleRan => (exit_code = Some(0) <=> result.kind = "ok") )
    /\ [][ LogWriteFailed =>
              /\ log' = log
              /\ args.loop_mode =>
                    /\ exit_code' = None
                    /\ pc = "log_cycle_start" => pc' = "run_action"
                    /\ pc = "log_outcome" => pc' = "log_cycle_end"
                    /\ pc = "log_cycle_end" =>
                          (pc' = "loop_top" /\ cycle_number' = cycle_number + 1)
              /\ ~args.loop_mode =>
                    /\ pc' = "exited"
                    /\ exit_code' = IF result.kind = "ok" THEN Some(0) ELSE Some(1) ]_vars

\* One-shot mode exited 0 although the success record could not be written.
C9_Witness ==
    /\ SingleRan /\ result.kind = "ok" /\ exit_code = Some(0)
    /\ log_failures = 1 /\ log = <<>>

C11_PidFileGoneAfterCleanExit ==
    args.pid_file =>
        /\ (pc \notin {"main", "exited"}) => pid_file_exists
        /\ (pc = "exited" /\ exit_code = Some(0)) => ~pid_file_exists

\* The external command is running: run_claude_command was entered and has
\* not returned.
InFlight == invocations > 0 /\ result = NoResult

\* C12: a cancellation does not cut an action short: the process never ends
\* while the command it started is still running.
C12_NoExitInFlight == ~(pc = "exited" /\ InFlight)

\* The time string is two numbers, hour below 24 and minute below 60.
WellFormedTime(ts) ==
    /\ Len(ts) = 2
    /\ \A i \in 1..2 : ts[i].num
    /\ ts[1].val \in 0..23 /\ ts[2].val \in 0..59

\* The step in which main calls parse_time.
ParseStep == pc = "started" /\ ~args.loop_mode /\ pc' # "started"

\* C15: parse_time accepts exactly the strings of two numbers with hour in
\* 0..23 and minute in 0..59 and returns today's date at that hour and
\* minute, seconds and below zero; any other string is an error and gives no
\* target.
C15_ParseTime ==
    [][ ParseStep =>
          IF WellFormedTime(RequestedTime)
          THEN /\ pc' = "parsed"
               /\ target_time' = Instant(DayOf(now), RequestedTime[1].val,
                                         RequestedTime[2].val, 0, 0)
          ELSE /\ pc' = "exited" /\ exit_code' = Some(1)
               /\ target_time' = target_time ]_vars

\* 23:59 was accepted late in a minute and gave today's 23:59:00.0.
C15_Witness ==
    /\ pc = "parsed" /\ args.time = Some(<< Part(23), Part(59) >>)
    /\ target_time = Instant(0, 23, 59, 0, 0) /\ now > target_time

\* The place in its cycle of the record that main logs at pc.
RecordPlace ==
    IF pc = "log_cycle_start" THEN 2 ELSE IF pc = "log_outcome" THEN 1 ELSE 0

\* C16: in recurring mode the records of a cycle are emitted in the order
\* start, outcome, end, each with the number of that cycle, and no record of
\* cycle k+1 comes before the end record of cycle k, whether the action
\* succeeded or failed. (A record whose write failed is absent; the order of
\* the others is the same.)
C16_CycleRecordOrder ==
    [][ args.loop_mode =>
          /\ pc = "log_cycle_start" => pc' \in {"log_cycle_start", "run_action", "exited"}
          /\ pc = "run_action" => pc' \in {"run_action", "executing", "log_outcome", "exited"}
          /\ pc = "executing" => pc' \in {"executing", "log_outcome", "exited"}
          /\ pc = "log_outcome" => pc' \in {"log_outcome", "log_cycle_end", "exited"}
          /\ pc = "log_cycle_end" => pc' \in {"log_cycle_end", "loop_top", "exited"}
          /\ log' # log =>
                /\ pc \in {"log_cycle_start", "log_outcome", "log_cycle_end"}
                /\ Len(log') = Len(log) + 1
                /\ SubSeq(log', 1, Len(log)) = log
                /\ log'[Len(log')].cycle_number = Some(cycle_number)
                /\ TripleRank(log'[Len(log')]) = 3 * cycle_number - RecordPlace
                /\ \A i \in 1..Len(log) :
                      TripleRank(log[i]) < TripleRank(log'[Len(log')]) ]_vars

\* Cycle 1 failed, its three records are written, and the start record of
\* cycle 2 follows them.
C16_Witness ==
    /\ args.loop_mode /\ Len(log) = 4
    /\ log[1] = CycleStartEntry(1) /\ log[2].status = "error"
    /\ log[3] = CycleEndEntry(1) /\ log[4] = CycleStartEntry(2)

\* C17: the cycle counter is 1 when the first cycle starts, goes up by
\* exactly 1 in the step that issues the end record of a cycle, whatever the
\* action's result and whether or not a log write failed, and changes in no
\* other step.
C17_CycleCounter ==
    /\ [](args.loop_mode /\ pc \in SchedulingPcs => cycle_number >= 1)
    /\ [](args.loop_mode /\ pc \in SchedulingPcs /\ invocations = 0 => cycle_number = 1)
    /\ [][ args.loop_mode /\ ~CancelStep =>
             /\ pc = "log_cycle_end" =>
                   cycle_number' = cycle_number + 1 /\ pc' = "loop_top"
             /\ pc \in (SchedulingPcs \ {"log_cycle_end"}) =>
                   cycle_number' = cycle_number ]_vars

\* Two cycles are complete, the second with a failed action, and a log write
\* failed: the counter is 3.
C17_Witness ==
    /\ args.loop_mode /\ pc = "loop_top" /\ cycle_number = 3
    /\ result.kind = "err" /\ log_failures = 1

\* C18: every fire time leads to one invocation of the action, made when
\* now >= fire time: none while now < fire time, no second one for the same
\* fire time, and the next cycle waits for a new, later fire time.
C18_OneInvocationPerFireTime ==
    /\ [][ invocations' # invocations =>
             /\ pc = "run_action"
             /\ invocations' = invocations + 1
             /\ now >= FireTime ]_vars
    /\ [][ LoopTopStep /\ cycle_number > 1 => next_time' > next_time ]_vars
    /\ [](args.loop_mode =>
             /\ pc \in {"loop_top", "waiting", "log_cycle_start", "run_action"} =>
                   invocations = cycle_number - 1
             /\ pc \in {"executing", "log_outcome", "log_cycle_end"} =>
                   invocations = cycle_number)
    /\ [](~args.loop_mode =>
             /\ pc \in {"waiting", "run_action"} => invocations = 0
             /\ pc \in {"executing", "log_outcome"} => invocations = 1
             /\ invocations <= 1)

\* The second fire time of recurring mode has been reached and its
\* invocation, the second of the run, is in progress.
C18_Witness ==
    /\ args.loop_mode /\ pc = "executing" /\ cycle_number = 2
    /\ invocations = 2 /\ now >= next_time

ClockMax == Instant(MaxDay, HoursPerDay - 1, MinutesPerHour - 1, SecondsPerMinute - 1,
                    SubsPerSecond - 1)

\* C19: when the clock keeps advancing and every invocation returns, every
\* wait is followed by an invocation of the action unless a cancellation
\* arrives, and one-shot mode then ends. (The fire time is one the modelled
\* clock reaches; the cycles are those up to MaxCycles.)
C19_WaitingLeadsToExecuting ==
    /\ \A n \in 0..MaxCycles :
          (pc = "waiting" /\ invocations = n /\ FireTime <= ClockMax)
             ~> (invocations = n + 1 \/ exit_via = "cancel")
    /\ (~args.loop_mode /\ pc = "waiting" /\ FireTime <= ClockMax) ~> (pc = "exited")

\* Recurring mode is in its second wait, before the fire time, which the
\* clock will reach.
C19_Witness ==
    /\ args.loop_mode /\ pc = "waiting" /\ cycle_number = 2
    /\ now < next_time /\ next_time <= ClockMax

\* a is the beginning of b.
IsPrefix(a, b) == Len(a) <= Len(b) /\ SubSeq(b, 1, Len(a)) = a

\* C13: when several processes append to the same date-file at once, every
\* record is one complete line of its own under every interleaving of their
\* writes: each record is followed at once by its newline (the last record
\* may still wait for it), no line is empty, and a write changes nothing
\* that the file already holds. (Calls whose write failed are left out.)
C13_LineAtomicAppends ==
    log_failures = 0 =>
        \A d \in LogDates :
            LET data == files[d].data
            IN  \A i \in 1..Len(data) :
                    IF data[i] = Newline
                    THEN i > 1 /\ data[i - 1] # Newline
                    ELSE i = Len(data) \/ data[i + 1] = Newline

\* Process w returns Ok from Logger::log in the step taken.
LogReturnsOk(w) ==
    /\ wr[w].pc = "write_newline" /\ wr'[w].pc = "idle"
    /\ log_failures' = log_failures

\* C14: Logger::log only appends, to the file of the entry's own date: no
\* step removes a file or changes what a file holds already, and a call that
\* returns Ok leaves the directory as it was when the call began, but for
\* the file named by the date of the entry's timestamp, which exists and has
\* the entry's line added at its end, whether or not an earlier run wrote
\* that file.
C14_AppendOnlyDatePartitioned ==
    [][ /\ \A d \in LogDates :
             /\ files[d].exists => files'[d].exists
             /\ IsPrefix(files[d].data, files'[d].data)
        /\ \A w \in procs :
             LogReturnsOk(w) =>
                 files' = [wr[w].before EXCEPT ![DayOf(wr[w].entry.timestamp)] =
                              [exists |-> TRUE,
                               data |-> wr[w].before[DayOf(wr[w].entry.timestamp)].data
                                          \o << to_string(wr[w].entry), Newline >>]] ]_vars

\* An entry stamped at the last instant of date 0 was logged after the files
\* of both dates had a line from an earlier run: date 0 has two lines, the
\* new one last, and date 1 still its one line.
C14_Witness ==
    /\ procs = {1} /\ wr[1].pc = "idle" /\ wr[1].calls = 1 /\ log_failures = 0
    /\ Len(files[0].data) = 4 /\ files[0].data[2] = Newline /\ files[0].data[4] = Newline
    /\ files[0].data[3][2].timestamp = Instant(0, 23, 59, 59, SubsPerSecond - 1)
    /\ files[1] \in PriorFiles(1) \ {NoFile}

\* C21: when the log directory cannot be initialised (either mode) or the
\* time string is malformed (one-shot mode), the process ends with a
\* non-zero exit code from a step before the wait, the Ctrl+C task and the
\* wait never started, the action never invoked, no log call made.
C21_FatalBeforeScheduling ==
    /\ [](exit_via \in {"init_failed", "invalid_time"} =>
             /\ pc = "exited" /\ exit_code \notin {None, Some(0)}
             /\ ~handler /\ invocations = 0
             /\ log = <<>> /\ log_failures = 0)
    /\ [][ exit_via' \in {"init_failed", "invalid_time"} /\ exit_via = "none" =>
             pc \in {"main", "started"} ]_vars
    /\ [][ ParseStep /\ ~WellFormedTime(RequestedTime) =>
             exit_via' = "invalid_time" ]_vars
    /\ [](exit_via = "init_failed" => ~pid_file_exists)

\* One-shot mode was given 12:30:45 and has ended with exit code 1.
C21_Witness ==
    /\ ~args.loop_mode /\ args.time = Some(<< Part(12), Part(30), Part(45) >>)
    /\ pc = "exited" /\ exit_via = "invalid_time" /\ exit_code = Some(1)

\* The slot instants of the days of the clock.
SlotInstants == { SlotInstant(d, sl) : d \in 0..MaxDay, sl \in ScheduleSlots }

\* C22: in recurring mode the clock never goes back, and the fire time of
\* each cycle after the first is computed from the clock as it is after the
\* previous cycle's logging and is later than both that clock and the
\* previous fire time: no slot instant is a fire time twice, and a slot that
\* passed while the action ran is not a fire time at all.
C22_FireTimesIncrease ==
    /\ [][ now' >= now ]_vars
    /\ [][ LoopTopStep =>
             /\ next_time' = get_next_loop_time(now)
             /\ next_time' > now
             /\ cycle_number > 1 =>
                   /\ now >= next_time
                   /\ next_time' > next_time
                   /\ \A s \in SlotInstants :
                         (next_time < s /\ s <= now) => next_time' # s ]_vars

\* Cycle 1 is over and a slot later than its fire time has passed meanwhile.
C22_Witness ==
    /\ args.loop_mode /\ pc = "loop_top" /\ cycle_number = 2
    /\ \E s \in SlotInstants : next_time < s /\ s <= now

\* C23: with a PID file path given and the PID file written, a fatal error
\* after that (malformed time string, failed action in one-shot mode) also
\* removes the PID file.
C23_PidFileGoneAfterFatalError ==
    (args.pid_file /\ pc = "exited" /\ exit_via \in {"invalid_time", "action_failed"})
        => ~pid_file_exists

====
